---- MODULE Spec2Model ----
(***************************************************************************)
(* Model of backend/tracker.py: the IoU function and SimpleSortTracker.    *)
(*                                                                         *)
(* Boxes are 4-tuples <<x1, y1, x2, y2>> of integers.  A float that the    *)
(* code computes as a quotient of integers (an IoU, min_iou, smoothing) is *)
(* kept as the exact fraction <<numerator, denominator>>, denominator > 0; *)
(* the values used are far enough apart that double rounding cannot change *)
(* the outcome of a comparison, and smoothing is dyadic so the blend is    *)
(* exact in doubles.  A score is kept in tenths (9 is 0.9, 12 is 1.2).     *)
(* Every detection carries bbox, label and score, as update()'s docstring  *)
(* requires, and max_age is a count (>= 0).                                *)
(* Python's 0-based indices are 1-based here and 0 stands for None.        *)
(***************************************************************************)
EXTENDS Integers, Sequences, FiniteSets, TLC

VARIABLES max_age, min_iou, smoothing, tracks, next_id, ret, calls, fed,
          issued, origin, missed, last, born, quiet

\* A direct call of iou(): its two arguments and its result, <<>> before the
\* call returns.
VARIABLES iou_args, iou_ret

trackerVars == <<max_age, min_iou, smoothing, tracks, next_id, ret, calls, fed,
                 issued, origin, missed, last, born, quiet>>
iouVars == <<iou_args, iou_ret>>

\* The detector's model, the sidebar controls, the fields of an
\* ARVideoProcessor, and a record of what its last recv() did.
VARIABLES model, run_reasoner, max_fps, frame_count, last_label, last_box,
          last_agents, trace

appVars == <<model, run_reasoner, max_fps, frame_count, last_label, last_box,
             last_agents, trace>>

vars == <<trackerVars, iouVars, appVars>>

\* ---------------------------------------------------------------- bounds
\* Number of update() calls in a session.
MaxCalls == 4
\* Number of detections supplied over a session.
MaxFed == 3
\* Largest coordinate of a box handed to iou() directly.
MaxCoord == 2
\* Number of frames delivered to a video processor.
MaxFrames == 4

\* ---------------------------------------------------------------- inputs
\* Constructor arguments tried: max_age, min_iou, smoothing.
Configs ==
    { [max_age |-> 1, min_iou |-> <<3, 10>>, smoothing |-> <<1, 2>>],
      [max_age |-> 0, min_iou |-> <<0, 1>>,  smoothing |-> <<1, 1>>],
      [max_age |-> 2, min_iou |-> <<1, 2>>,  smoothing |-> <<0, 1>>] }

BoxA == <<0, 0, 2, 2>>
BoxB == <<-1, 0, 1, 2>>
BoxC == <<-1, 0, 3, 2>>
BoxD == <<5, 0, 7, 2>>
BoxZ == <<1, 1, 1, 3>>
BoxI == <<2, 2, 0, 0>>

\* Detections a detector may hand to update().
Detections ==
    { [bbox |-> BoxA, label |-> "cow",   score |-> 9],
      [bbox |-> BoxB, label |-> "dog",   score |-> 9],
      [bbox |-> BoxC, label |-> "sheep", score |-> 5],
      [bbox |-> BoxD, label |-> "cow",   score |-> 12],
      [bbox |-> BoxZ, label |-> "dog",   score |-> 5],
      [bbox |-> BoxI, label |-> "sheep", score |-> 7] }

Boxes == { d.bbox : d \in Detections }

RECURSIVE SeqsUpTo(_, _)
SeqsUpTo(S, n) ==
    IF n = 0 THEN { <<>> }
    ELSE LET shorter == SeqsUpTo(S, n - 1)
         IN  shorter \cup { Append(s, e) : s \in shorter, e \in S }

\* ---------------------------------------------------------------- helpers
Max(a, b) == IF a >= b THEN a ELSE b
Min(a, b) == IF a <= b THEN a ELSE b

\* Comparisons of fractions with positive denominators.
FracGt(p, q) == p[1] * q[2] > q[1] * p[2]
FracGe(p, q) == p[1] * q[2] >= q[1] * p[2]
FracIsZero(p) == p[1] = 0

\* int(v) of the float n / d, d > 0: truncation toward zero.
Trunc(n, d) == IF n >= 0 THEN n \div d ELSE -((-n) \div d)

\* ---------------------------------------------------------------- iou
\* A slip: the intersection is not subtracted from the union.
iouUnionSum(b1, b2) ==
    LET x1 == Max(b1[1], b2[1])
        y1 == Max(b1[2], b2[2])
        x2 == Min(b1[3], b2[3])
        y2 == Min(b1[4], b2[4])
        inter_w == Max(0, x2 - x1)
        inter_h == Max(0, y2 - y1)
        inter == inter_w * inter_h
        area1 == (b1[3] - b1[1]) * (b1[4] - b1[2])
        area2 == (b2[3] - b2[1]) * (b2[4] - b2[2])
        union == area1 + area2
    IN  IF inter <= 0 THEN <<0, 1>>
        ELSE IF union <= 0 THEN <<0, 1>>
        ELSE <<inter, union>>

\* A slip: the width and the height of the intersection are not clamped at 0.
iouNoClamp(b1, b2) ==
    LET x1 == Max(b1[1], b2[1])
        y1 == Max(b1[2], b2[2])
        x2 == Min(b1[3], b2[3])
        y2 == Min(b1[4], b2[4])
        inter == (x2 - x1) * (y2 - y1)
        area1 == (b1[3] - b1[1]) * (b1[4] - b1[2])
        area2 == (b2[3] - b2[1]) * (b2[4] - b2[2])
        union == area1 + area2 - inter
    IN  IF inter <= 0 THEN <<0, 1>>
        ELSE IF union <= 0 THEN <<0, 1>>
        ELSE <<inter, union>>

iou(b1, b2) ==
    LET x1 == Max(b1[1], b2[1])
        y1 == Max(b1[2], b2[2])
        x2 == Min(b1[3], b2[3])
        y2 == Min(b1[4], b2[4])
        inter_w == Max(0, x2 - x1)
        inter_h == Max(0, y2 - y1)
        inter == inter_w * inter_h
        area1 == (b1[3] - b1[1]) * (b1[4] - b1[2])
        area2 == (b2[3] - b2[1]) * (b2[4] - b2[2])
        union == area1 + area2 - inter
    IN  IF inter <= 0 THEN <<0, 1>>
        ELSE IF union <= 0 THEN <<0, 1>>
        ELSE <<inter, union>>

\* ---------------------------------------------------------------- tracker
\* A slip: a new track starts with age 0.
NewTrackAgeZero(trs, nid, det) ==
    [ tracks  |-> Append(trs, [ id |-> nid,
                                bbox |-> det.bbox,
                                label |-> det.label,
                                score |-> det.score,
                                age |-> 0,
                                time_since_update |-> 0 ]),
      next_id |-> nid + 1 ]

\* A slip: the id counter is not advanced.
NewTrackNoIncrement(trs, nid, det) ==
    [ tracks  |-> Append(trs, [ id |-> nid,
                                bbox |-> det.bbox,
                                label |-> det.label,
                                score |-> det.score,
                                age |-> 1,
                                time_since_update |-> 0 ]),
      next_id |-> nid ]

\* A slip: the id is taken from the length of the list, not from the counter.
NewTrackIdFromLength(trs, nid, det) ==
    [ tracks  |-> Append(trs, [ id |-> Len(trs) + 1,
                                bbox |-> det.bbox,
                                label |-> det.label,
                                score |-> det.score,
                                age |-> 1,
                                time_since_update |-> 0 ]),
      next_id |-> nid + 1 ]

\* _new_track: append a track for det and advance the id counter.
NewTrack(trs, nid, det) ==
    [ tracks  |-> Append(trs, [ id |-> nid,
                                bbox |-> det.bbox,
                                label |-> det.label,
                                score |-> det.score,
                                age |-> 1,
                                time_since_update |-> 0 ]),
      next_id |-> nid + 1 ]

\* for tr in self.tracks: age += 1; time_since_update += 1
\* A slip: ageing also lowers the score.
RECURSIVE AgeAllDecay(_)
AgeAllDecay(trs) ==
    IF trs = <<>> THEN <<>>
    ELSE << [ Head(trs) EXCEPT !.age = @ + 1,
                               !.time_since_update = @ + 1,
                               !.score = @ - 1 ] >>
         \o AgeAllDecay(Tail(trs))

\* A slip: only age is incremented.
RECURSIVE AgeAllNoTsu(_)
AgeAllNoTsu(trs) ==
    IF trs = <<>> THEN <<>>
    ELSE << [ Head(trs) EXCEPT !.age = @ + 1 ] >>
         \o AgeAllNoTsu(Tail(trs))

\* A slip: only time_since_update is incremented.
RECURSIVE AgeAllNoAge(_)
AgeAllNoAge(trs) ==
    IF trs = <<>> THEN <<>>
    ELSE << [ Head(trs) EXCEPT !.time_since_update = @ + 1 ] >>
         \o AgeAllNoAge(Tail(trs))

\* for tr in self.tracks: age += 1, time_since_update += 1
RECURSIVE AgeAll(_)
AgeAll(trs) ==
    IF trs = <<>> THEN <<>>
    ELSE << [ Head(trs) EXCEPT !.age = @ + 1,
                               !.time_since_update = @ + 1 ] >>
         \o AgeAll(Tail(trs))

\* Slips: a strict comparison, and a grace period one tick too long.
KeepStrict(tr, ma) == tr.time_since_update < ma
KeepOneMore(tr, ma) == tr.time_since_update <= ma + 1

\* [tr for tr in self.tracks if tr["time_since_update"] <= self.max_age]
Keep(tr, ma) == tr.time_since_update <= ma
RemoveStale(trs, ma) == SelectSeq(trs, LAMBDA tr : Keep(tr, ma))

\* Slips: a score outside [0, 1] is ranked as 0.0, and a detection is put
\* before the earlier detections of the same score.
RECURSIVE InsertDescClamped(_, _)
InsertDescClamped(s, d) ==
    LET key(score) == IF score < 0 \/ score > 10 THEN 0 ELSE score
    IN  IF s = <<>> THEN <<d>>
        ELSE IF key(s[Len(s)].score) >= key(d.score) THEN Append(s, d)
        ELSE Append(InsertDescClamped(SubSeq(s, 1, Len(s) - 1), d), s[Len(s)])

\* A slip: a detection goes before the earlier ones of the same score.
RECURSIVE InsertDescUnstable(_, _)
InsertDescUnstable(s, d) ==
    IF s = <<>> THEN <<d>>
    ELSE IF s[Len(s)].score > d.score THEN Append(s, d)
    ELSE Append(InsertDescUnstable(SubSeq(s, 1, Len(s) - 1), d), s[Len(s)])

\* sorted(detections, key=score, reverse=True): stable, descending.
RECURSIVE InsertDesc(_, _)
InsertDesc(s, d) ==
    IF s = <<>> THEN <<d>>
    ELSE IF s[Len(s)].score >= d.score THEN Append(s, d)
    ELSE Append(InsertDesc(SubSeq(s, 1, Len(s) - 1), d), s[Len(s)])

\* A slip: the detections are left in the order they were given.
SortByScoreKeepOrder(dets) == dets

RECURSIVE SortByScore(_)
SortByScore(dets) ==
    IF dets = <<>> THEN <<>>
    ELSE InsertDesc(SortByScore(SubSeq(dets, 1, Len(dets) - 1)), dets[Len(dets)])

\* A slip: the first track with a positive overlap is kept.
BetterFirstHit(iou_val, best_iou) ==
    FracIsZero(best_iou) /\ ~FracIsZero(iou_val)

\* A slip: a track with an equal overlap replaces the best so far.
BetterOrEqual(iou_val, best_iou) == FracGe(iou_val, best_iou)

\* The test of the inner loop: does this track replace the best so far?
Better(iou_val, best_iou) == FracGt(iou_val, best_iou)

\* Inner loop over the tracks for one detection.
\* A slip: tracks already claimed in the call are scanned again.
RECURSIVE BestScanNoUsed(_, _, _, _, _, _)
BestScanNoUsed(trs, used, det, t_idx, best_iou, best_t_idx) ==
    IF t_idx > Len(trs) THEN [best_iou |-> best_iou, best_t_idx |-> best_t_idx]
    ELSE LET iou_val == iou(trs[t_idx].bbox, det.bbox)
         IN  IF Better(iou_val, best_iou)
             THEN BestScanNoUsed(trs, used, det, t_idx + 1, iou_val, t_idx)
             ELSE BestScanNoUsed(trs, used, det, t_idx + 1, best_iou, best_t_idx)

RECURSIVE BestScan(_, _, _, _, _, _)
BestScan(trs, used, det, t_idx, best_iou, best_t_idx) ==
    IF t_idx > Len(trs) THEN [best_iou |-> best_iou, best_t_idx |-> best_t_idx]
    ELSE IF t_idx \in used
         THEN BestScan(trs, used, det, t_idx + 1, best_iou, best_t_idx)
    ELSE LET iou_val == iou(trs[t_idx].bbox, det.bbox)
         IN  IF Better(iou_val, best_iou)
             THEN BestScan(trs, used, det, t_idx + 1, iou_val, t_idx)
             ELSE BestScan(trs, used, det, t_idx + 1, best_iou, best_t_idx)

\* A slip: the threshold is compared strictly.
AcceptStrict(best_t_idx, best_iou, miniou) ==
    best_t_idx # 0 /\ FracGt(best_iou, miniou)

\* if best_t_idx is not None and best_iou >= self.min_iou
Accept(best_t_idx, best_iou, miniou) ==
    best_t_idx # 0 /\ FracGe(best_iou, miniou)

\* Slips: the blend is rounded down, and the two weights are swapped.
SmoothFloor(old_box, new_box, alpha) ==
    LET v(k) == ((alpha[2] - alpha[1]) * old_box[k] + alpha[1] * new_box[k])
                    \div alpha[2]
    IN  << v(1), v(2), v(3), v(4) >>
SmoothSwapped(old_box, new_box, alpha) ==
    LET v(k) == Trunc(alpha[1] * old_box[k] + (alpha[2] - alpha[1]) * new_box[k],
                      alpha[2])
    IN  << v(1), v(2), v(3), v(4) >>

\* smoothed = (1.0 - alpha) * old_box + alpha * new_box; int() of each.
Smooth(old_box, new_box, alpha) ==
    LET v(k) == Trunc((alpha[2] - alpha[1]) * old_box[k] + alpha[1] * new_box[k],
                      alpha[2])
    IN  << v(1), v(2), v(3), v(4) >>

\* A slip: the score of a matched track is left as it was.
CommitKeepScore(tr, det, alpha) ==
    [ tr EXCEPT !.bbox = Smooth(tr.bbox, det.bbox, alpha),
                !.label = det.label,
                !.time_since_update = 0 ]

\* The body of the if: update the matched track from the detection.
Commit(tr, det, alpha) ==
    [ tr EXCEPT !.bbox = Smooth(tr.bbox, det.bbox, alpha),
                !.label = det.label,
                !.score = det.score,
                !.time_since_update = 0 ]

\* Greedy IoU matching: the outer loop.  st.match[d_idx] is the index of
\* the track the detection was paired with, 0 when it was not paired.
RECURSIVE MatchLoop(_, _, _, _, _)
MatchLoop(st, dets_sorted, d_idx, miniou, alpha) ==
    IF d_idx > Len(dets_sorted) THEN st
    ELSE LET det  == dets_sorted[d_idx]
             best == BestScan(st.tracks, st.used_track_indices, det, 1, <<0, 1>>, 0)
         IN  IF Accept(best.best_t_idx, best.best_iou, miniou)
             THEN MatchLoop(
                    [ tracks |-> [ st.tracks EXCEPT ![best.best_t_idx] =
                                     Commit(@, det, alpha) ],
                      used_track_indices |->
                          st.used_track_indices \cup { best.best_t_idx },
                      match |-> Append(st.match, best.best_t_idx) ],
                    dets_sorted, d_idx + 1, miniou, alpha)
             ELSE MatchLoop([ tracks |-> st.tracks,
                              used_track_indices |-> st.used_track_indices,
                              match |-> Append(st.match, 0) ],
                           dets_sorted, d_idx + 1, miniou, alpha)

\* A slip: the test is left out, every detection creates a track.
SkipNever(match, d_idx) == FALSE

\* if d_idx in used_det_indices: continue
Skip(match, d_idx) == match[d_idx] # 0

\* Any detections not matched -> new tracks.  st.origin collects, for the
\* history, the detection each new track was created from.
RECURSIVE CreateLoop(_, _, _, _)
CreateLoop(st, dets_sorted, match, d_idx) ==
    IF d_idx > Len(dets_sorted) THEN st
    ELSE IF Skip(match, d_idx)
         THEN CreateLoop(st, dets_sorted, match, d_idx + 1)
    ELSE LET n == NewTrack(st.tracks, st.next_id, dets_sorted[d_idx])
         IN  CreateLoop([ tracks  |-> n.tracks,
                          next_id |-> n.next_id,
                          origin  |-> Append(st.origin, dets_sorted[d_idx]) ],
                        dets_sorted, match, d_idx + 1)

\* ---------------------------------------------------------------- state
\* No direct call of iou() is under way.
NoIouCall ==
    /\ iou_args = <<>>
    /\ iou_ret = <<>>

\* No video processor exists: None is "None" for a label and <<>> for a box
\* and for the agents.
NoProcessor ==
    /\ model = "None"
    /\ run_reasoner = FALSE
    /\ max_fps = 5
    /\ frame_count = 0
    /\ last_label = "None"
    /\ last_box = <<>>
    /\ last_agents = <<>>
    /\ trace = [ processed |-> FALSE, raised |-> "None", dets |-> <<>>,
                 label |-> "None", box |-> <<>>,
                 label_at |-> 0, box_at |-> 0, agents_at |-> 0 ]

Init ==
    /\ NoIouCall
    /\ NoProcessor
    /\ \E cfg \in Configs :
         /\ max_age = cfg.max_age
         /\ min_iou = cfg.min_iou
         /\ smoothing = cfg.smoothing
    /\ tracks = <<>>
    /\ next_id = 1
    /\ ret = <<>>
    /\ calls = 0
    /\ fed = 0
    /\ issued = <<>>
    /\ origin = <<>>
    /\ missed = <<>>
    /\ born = <<>>
    /\ quiet = 0
    /\ last = [ detections |-> <<>>, dets_sorted |-> <<>>, before |-> <<>>,
                aged |-> <<>>, match |-> <<>>, created |-> <<>>,
                next_id |-> 1 ]

\* History kept for the properties: issued lists the ids in order of
\* creation, origin[k] is the detection the k-th track was created from, and
\* missed[k] counts the consecutive calls in which the k-th track created
\* was not paired (0 in the call that created or paired it); born[k] is the
\* number of the call that created the k-th track, and quiet counts the
\* calls without detections made in a row up to now.
Unmatched(match) == { d \in 1..Len(match) : match[d] = 0 }
Rank(match, d) == Cardinality({ e \in Unmatched(match) : e <= d })
Matched(aged, match) == { aged[match[d]].id : d \in { e \in 1..Len(match) : match[e] # 0 } }

NextMissed(aged, match, created) ==
    SubSeq([ k \in 1..Len(missed) |->
               IF issued[k] \in Matched(aged, match) THEN 0 ELSE missed[k] + 1 ]
           \o [ j \in 1..Len(created) |-> 0 ],
           1, Len(missed) + Len(created))

\* update(detections): the method as a function of the tracker's fields and
\* its argument; the result carries the new fields and the returned list
\* together with what the call went through, kept for the history.
update(trs, nid, detections, ma, miniou, alpha) ==
    LET aged == AgeAll(trs)
    IN  IF Len(detections) = 0
        THEN [ tracks |-> RemoveStale(aged, ma), next_id |-> nid,
               aged |-> aged, dets_sorted |-> <<>>, match |-> <<>>,
               created |-> <<>>, origin |-> <<>> ]
        ELSE LET dets_sorted == SortByScore(detections)
                 m == MatchLoop([ tracks |-> aged,
                                  used_track_indices |-> {},
                                  match |-> <<>> ],
                                dets_sorted, 1, miniou, alpha)
                 c == CreateLoop([ tracks |-> m.tracks, next_id |-> nid,
                                   origin |-> <<>> ],
                                 dets_sorted, m.match, 1)
             IN  [ tracks |-> RemoveStale(c.tracks, ma), next_id |-> c.next_id,
                   aged |-> aged, dets_sorted |-> dets_sorted, match |-> m.match,
                   created |-> SubSeq(c.tracks, Len(aged) + 1, Len(c.tracks)),
                   origin |-> c.origin ]

\* One call of update() on the tracker.
Update(detections) ==
    /\ calls < MaxCalls
    /\ fed + Len(detections) <= MaxFed
    /\ \E r \in { update(tracks, next_id, detections, max_age, min_iou, smoothing) } :
         /\ tracks' = r.tracks
         /\ ret' = r.tracks
         /\ next_id' = r.next_id
         /\ issued' = issued \o [ i \in 1..Len(r.created) |-> r.created[i].id ]
         /\ origin' = origin \o r.origin
         /\ missed' = NextMissed(r.aged, r.match, r.created)
         /\ born' = born \o [ i \in 1..Len(r.created) |-> calls + 1 ]
         /\ last' = [ detections |-> detections, dets_sorted |-> r.dets_sorted,
                      before |-> tracks, aged |-> r.aged, match |-> r.match,
                      created |-> r.created, next_id |-> next_id ]
    /\ calls' = calls + 1
    /\ quiet' = IF Len(detections) = 0 THEN quiet + 1 ELSE 0
    /\ fed' = fed + Len(detections)
    /\ UNCHANGED <<max_age, min_iou, smoothing>>
    /\ UNCHANGED <<iouVars, appVars>>

Next == \E detections \in SeqsUpTo(Detections, MaxFed - fed) : Update(detections)

Spec == Init /\ [][Next]_vars

\* ---------------------------------------------------------------- iou alone
\* Boxes with coordinates in 0..MaxCoord, inverted and empty ones included.
IouBoxes == { <<x1, y1, x2, y2>> : x1 \in 0..MaxCoord, y1 \in 0..MaxCoord,
                                   x2 \in 0..MaxCoord, y2 \in 0..MaxCoord }

\* A tracker constructed with the default arguments and never updated.
NoUpdate ==
    /\ max_age = 10
    /\ min_iou = <<3, 10>>
    /\ smoothing = <<5, 10>>
    /\ tracks = <<>>
    /\ next_id = 1
    /\ ret = <<>>
    /\ calls = 0
    /\ fed = 0
    /\ issued = <<>>
    /\ origin = <<>>
    /\ missed = <<>>
    /\ born = <<>>
    /\ quiet = 0
    /\ last = [ detections |-> <<>>, dets_sorted |-> <<>>, before |-> <<>>,
                aged |-> <<>>, match |-> <<>>, created |-> <<>>,
                next_id |-> 1 ]

InitIou ==
    /\ iou_args \in IouBoxes \X IouBoxes
    /\ iou_ret = <<>>
    /\ NoUpdate
    /\ NoProcessor

IouCall ==
    /\ iou_ret = <<>>
    /\ iou_ret' = <<iou(iou_args[1], iou_args[2])>>
    /\ UNCHANGED <<iou_args, trackerVars, appVars>>

NextIou == IouCall

SpecIou == InitIou /\ [][NextIou]_vars

\* ---------------------------------------------------------------- detector
\* results[0].names of the model: class id to label.
Names == [ cls_id \in {0, 19} |-> IF cls_id = 0 THEN "person" ELSE "cow" ]

\* Boxes as the model reports them: class id, confidence in tenths, corners.
RawCow == [cls |-> 19, conf |-> 8, xyxy |-> <<1, 1, 9, 9>>]
RawPerson == [cls |-> 0, conf |-> 6, xyxy |-> <<-2, 0, 3, 3>>]
RawOther == [cls |-> 77, conf |-> 6, xyxy |-> <<2, 2, 4, 4>>]

\* Frames as recv() converts them: bgr24 arrays of shape (h, w, 3), with the
\* boxes the model would report on them.
Frames ==
    { [shape |-> <<6, 8, 3>>, scene |-> sc] :
        sc \in { <<>>, <<RawCow>>, <<RawPerson, RawCow>>,
                 <<RawOther, RawPerson>> } }

\* Optional results of the model: None, or the list predict() returns.
None == [is_none |-> TRUE, value |-> <<>>]
Some(v) == [is_none |-> FALSE, value |-> v]

run_model(mdl, img) ==
    IF mdl = "None" THEN None
    ELSE Some(<< [boxes |-> img.scene, names |-> Names] >>)

Clip(x, size) == Max(0, Min(x, size - 1))

RECURSIVE Boxed(_, _, _, _)
Boxed(boxes, names, h, w) ==
    IF boxes = <<>> THEN <<>>
    ELSE LET b == Head(boxes)
             label == IF b.cls \in DOMAIN names THEN names[b.cls] ELSE "object"
         IN  << [ label |-> label,
                  bbox  |-> << Clip(b.xyxy[1], w), Clip(b.xyxy[2], h),
                               Clip(b.xyxy[3], w), Clip(b.xyxy[4], h) >>,
                  score |-> b.conf ] >>
             \o Boxed(Tail(boxes), names, h, w)

detect_all(mdl, img) ==
    LET h == img.shape[1]
        w == img.shape[2]
        results == run_model(mdl, img)
    IN  IF results.is_none \/ Len(results.value) = 0 THEN <<>>
        ELSE LET boxes == results.value[1].boxes
             IN  IF Len(boxes) = 0 THEN <<>>
                 ELSE Boxed(boxes, results.value[1].names, h, w)

\* max(dets, key=score): the first detection of the highest score.
Best(dets) ==
    dets[CHOOSE i \in 1..Len(dets) :
            /\ \A j \in 1..Len(dets) : dets[j].score <= dets[i].score
            /\ \A j \in 1..(i - 1) : dets[j].score < dets[i].score]

detect_single(mdl, img) ==
    LET dets == detect_all(mdl, img)
    IN  IF dets = <<>> THEN [label |-> "None", box |-> <<>>]
        ELSE [label |-> Best(dets).label, box |-> Best(dets).bbox]

\* ---------------------------------------------------------------- app
\* AgenticReasoner has no method explain_structured: the call raises.
explain_structured(label) == [raised |-> "AttributeError"]

process_interval(fps) == Max(1, 15 \div fps)

InitApp ==
    /\ model \in {"None", "YOLO"}
    /\ run_reasoner \in BOOLEAN
    /\ max_fps \in {5, 7, 15}
    /\ frame_count = 0
    /\ last_label = "None"
    /\ last_box = <<>>
    /\ last_agents = <<>>
    /\ trace = [ processed |-> FALSE, raised |-> "None", dets |-> <<>>,
                 label |-> "None", box |-> <<>>,
                 label_at |-> 0, box_at |-> 0, agents_at |-> 0 ]
    /\ NoUpdate
    /\ NoIouCall

recv(img) ==
    /\ frame_count < MaxFrames
    /\ frame_count' = frame_count + 1
    /\ IF frame_count' % process_interval(max_fps) = 0
       THEN LET single == detect_single(model, img)
                seen == [ trace EXCEPT !.processed = TRUE,
                                       !.dets = detect_all(model, img),
                                       !.label = single.label,
                                       !.box = single.box ]
            IN  IF single.label # "None"
                THEN /\ last_label' = single.label
                     /\ last_box' = single.box
                     /\ IF run_reasoner
                        THEN /\ last_agents' = last_agents
                             /\ trace' = [ seen EXCEPT
                                  !.raised = explain_structured(single.label).raised,
                                  !.label_at = frame_count',
                                  !.box_at = frame_count' ]
                        ELSE /\ last_agents' = <<>>
                             /\ trace' = [ seen EXCEPT
                                  !.raised = "None",
                                  !.label_at = frame_count',
                                  !.box_at = frame_count',
                                  !.agents_at = frame_count' ]
                ELSE /\ last_label' = "None"
                     /\ last_box' = <<>>
                     /\ last_agents' = <<>>
                     /\ trace' = [ seen EXCEPT
                                  !.raised = "None",
                                  !.label_at = frame_count',
                                  !.box_at = frame_count',
                                  !.agents_at = frame_count' ]
       ELSE /\ trace' = [ trace EXCEPT !.processed = FALSE, !.raised = "None" ]
            /\ UNCHANGED <<last_label, last_box, last_agents>>
    /\ UNCHANGED <<model, run_reasoner, max_fps, trackerVars, iouVars>>

NextApp == \E img \in Frames : recv(img)

SpecApp == InitApp /\ [][NextApp]_vars

\* ---------------------------------------------------------------- properties
Ids(trs) == { trs[i].id : i \in 1..Len(trs) }
Present(id) == \E i \in 1..Len(ret) : ret[i].id = id
Returned(id) == ret[CHOOSE i \in 1..Len(ret) : ret[i].id = id]

\* C1: track ids are unique and strictly increasing in order of creation,
\* and an id is never assigned again, also after its track was pruned.
C1_IdsIncreasing ==
    /\ \A i, j \in 1..Len(issued) : i < j => issued[i] < issued[j]
    /\ \A i, j \in 1..Len(tracks) : i < j => tracks[i].id < tracks[j].id
    /\ \A i \in 1..Len(tracks) : tracks[i].id < next_id

\* A track was pruned in an earlier call and the last call created a track.
C1_Witness ==
    /\ last.created # <<>>
    /\ \E k \in 1..Len(issued) :
         /\ issued[k] \notin Ids(last.before)
         /\ issued[k] < last.created[1].id

\* C2: a track not paired for k consecutive calls is in the returned list
\* for every k <= max_age and is absent from the list returned by the
\* (max_age + 1)-th such call, for empty and for non-empty ticks.
C2_PrunedAfterMaxAge ==
    \A k \in 1..Len(issued) :
        /\ missed[k] <= max_age => Present(issued[k])
        /\ missed[k] = max_age + 1 => ~Present(issued[k])

\* A track reaches max_age + 1 misses in a call whose detections were
\* paired with other tracks.
C2_Witness ==
    /\ \E d \in 1..Len(last.match) : last.match[d] # 0
    /\ \E k \in 1..Len(issued) :
         /\ missed[k] = max_age + 1
         /\ issued[k] \in Ids(last.aged)
         /\ ~Present(issued[k])

\* C3: every returned track has time_since_update <= max_age.
C3_ReturnedFresh ==
    \A i \in 1..Len(ret) : ret[i].time_since_update <= max_age

\* A returned track has used its whole grace period.
C3_Witness ==
    /\ max_age >= 1
    /\ \E i \in 1..Len(ret) : ret[i].time_since_update = max_age

Degenerate(b) == b[3] <= b[1] \/ b[4] <= b[2]
Pairs == { d \in 1..Len(last.match) : last.match[d] # 0 }
Det(d) == last.dets_sorted[d]
\* The live track a detection was paired with, as it was before the pairing.
Old(d) == last.aged[last.match[d]]
\* The tracks whose overlap with the detection reaches min_iou.
Candidates(d) ==
    { t \in 1..Len(last.aged) :
        FracGe(iou(last.aged[t].bbox, Det(d).bbox), min_iou) }
ClaimedBefore(d) == { last.match[e] : e \in 1..(d - 1) } \ { 0 }
\* The track created for an unpaired detection is in the result.
CreatedFor(d) ==
    /\ Rank(last.match, d) <= Len(last.created)
    /\ LET tr == last.created[Rank(last.match, d)]
       IN  /\ tr.bbox = Det(d).bbox
           /\ \E i \in 1..Len(ret) : ret[i] = tr

\* C4 as stated: a detection with exactly one live track at or above
\* min_iou is paired with that track, whatever else is in the call.
C4_Original ==
    \A d \in 1..Len(last.match) :
        Cardinality(Candidates(d)) = 1 => last.match[d] \in Candidates(d)

\* C4 as amended: a detection with exactly one live track at or above
\* min_iou, with a positive overlap, that no detection processed earlier in
\* the call has claimed, updates that track and creates none.
C4_UniqueCandidatePaired ==
    \A d \in 1..Len(last.match) :
        \A t \in Candidates(d) :
            ( /\ Candidates(d) = { t }
              /\ ~FracIsZero(iou(last.aged[t].bbox, Det(d).bbox))
              /\ t \notin ClaimedBefore(d) )
            => /\ last.match[d] = t
               /\ Present(last.aged[t].id)
               /\ Returned(last.aged[t].id).time_since_update = 0
               /\ Returned(last.aged[t].id).label = Det(d).label
               /\ Returned(last.aged[t].id).score = Det(d).score
               /\ Len(last.created) = Cardinality(Unmatched(last.match))

\* The detection processed second in a call has a single candidate, at
\* exactly min_iou, which the first detection left unclaimed, and is paired
\* with it.
C4_Witness ==
    \E d \in Pairs :
        /\ d >= 2
        /\ Candidates(d) = { last.match[d] }
        /\ FracGe(min_iou, iou(Old(d).bbox, Det(d).bbox))

\* C5 as stated: each coordinate of a paired track's box is exactly
\* (1 - smoothing) * old + smoothing * detection.
C5_Original ==
    \A d \in Pairs : \A k \in 1..4 :
        smoothing[2] * Returned(Old(d).id).bbox[k] =
            (smoothing[2] - smoothing[1]) * Old(d).bbox[k]
                + smoothing[1] * Det(d).bbox[k]

\* C5 as amended: each coordinate is that blend truncated toward zero to an
\* integer.
C5_BlendTruncated ==
    \A d \in Pairs : \A k \in 1..4 :
        LET q == smoothing[2]
            n == (q - smoothing[1]) * Old(d).bbox[k] + smoothing[1] * Det(d).bbox[k]
            c == Returned(Old(d).id).bbox[k]
        IN  /\ n >= 0 => q * c <= n /\ n < q * c + q
            /\ n <= 0 => q * c >= n /\ n > q * c - q

\* A pairing whose blend has a negative and a positive coordinate that are
\* not integers.
C5_Witness ==
    \E d \in Pairs : \E k, l \in 1..4 :
        /\ smoothing = <<1, 2>>
        /\ Old(d).bbox[k] + Det(d).bbox[k] < 0
        /\ (Old(d).bbox[k] + Det(d).bbox[k]) % 2 = 1
        /\ Old(d).bbox[l] + Det(d).bbox[l] > 0
        /\ (Old(d).bbox[l] + Det(d).bbox[l]) % 2 = 1

\* C6: with smoothing = 1 a paired track's box becomes the detection's box,
\* with smoothing = 0 it stays the track's box.
C6_SmoothingExtremes ==
    \A d \in Pairs :
        /\ smoothing[1] = smoothing[2] => Returned(Old(d).id).bbox = Det(d).bbox
        /\ smoothing[1] = 0 => Returned(Old(d).id).bbox = Old(d).bbox

\* With smoothing = 0 a track is paired with a detection of another box.
C6_Witness ==
    /\ smoothing[1] = 0
    /\ \E d \in Pairs : Old(d).bbox # Det(d).bbox

\* C7: the tracks created in a call are as many as its unpaired detections,
\* no track is created otherwise, and detections are paired only with tracks
\* that were live before the call.
C7_CreatedIffUnmatched ==
    /\ Len(last.match) = Len(last.detections)
    /\ Len(last.created) = Cardinality(Unmatched(last.match))
    /\ next_id - last.next_id = Len(last.created)
    /\ Ids(tracks) \subseteq Ids(last.before) \cup Ids(last.created)
    /\ \A d \in 1..Len(last.match) : last.match[d] \in 0..Len(last.aged)
    /\ last.aged = <<>> =>
         /\ Len(last.created) = Len(last.detections)
         /\ Len(ret) = Len(last.detections)

\* No live track, and two identical detections become two tracks.
C7_Witness ==
    /\ last.aged = <<>>
    /\ Len(last.detections) >= 2
    /\ last.detections[1] = last.detections[2]
    /\ Len(ret) = Len(last.detections)

\* C8: a created track is in the result with the detection's raw box, label
\* and score, age 1, time_since_update 0 and the next unused id (1 for the
\* first track of a tracker).
C8_NewTrackFields ==
    /\ \A d \in Unmatched(last.match) :
         \E i \in 1..Len(ret) :
            ret[i] = [ id |-> last.next_id + Rank(last.match, d) - 1,
                       bbox |-> Det(d).bbox,
                       label |-> Det(d).label,
                       score |-> Det(d).score,
                       age |-> 1,
                       time_since_update |-> 0 ]
    /\ issued # <<>> => issued[1] = 1

\* A call on a tracker that has issued ids before creates two tracks.
C8_Witness ==
    /\ last.next_id > 1
    /\ Len(last.created) >= 2

\* C9: a detection whose overlap with every live track is 0 is not paired
\* and gets a new track, for every min_iou, 0 included.
C9_ZeroOverlapUnmatched ==
    \A d \in 1..Len(last.match) :
        (\A t \in 1..Len(last.aged) :
            FracIsZero(iou(last.aged[t].bbox, Det(d).bbox)))
        => last.match[d] = 0 /\ CreatedFor(d)

\* min_iou is 0 and a detection of a proper box overlaps no live track.
C9_Witness ==
    /\ min_iou[1] = 0
    /\ last.aged # <<>>
    /\ \E d \in 1..Len(last.match) :
         /\ ~Degenerate(Det(d).bbox)
         /\ \A t \in 1..Len(last.aged) :
              FracIsZero(iou(last.aged[t].bbox, Det(d).bbox))

\* C10: a detection with a degenerate or inverted box has overlap 0 with
\* every box and gets a new track, and the track created from it is never
\* paired afterwards: it keeps its fields, ages, and is pruned.
C10_DegenerateIsolated ==
    /\ \A d \in 1..Len(last.match) :
         Degenerate(Det(d).bbox) =>
            /\ \A b \in Boxes \cup { last.aged[t].bbox : t \in 1..Len(last.aged) } :
                 FracIsZero(iou(b, Det(d).bbox)) /\ FracIsZero(iou(Det(d).bbox, b))
            /\ last.match[d] = 0
            /\ CreatedFor(d)
    /\ \A k \in 1..Len(issued) :
         Degenerate(origin[k].bbox) =>
            /\ \A d \in Pairs : Old(d).id # issued[k]
            /\ Present(issued[k]) =>
                 /\ Returned(issued[k]).bbox = origin[k].bbox
                 /\ Returned(issued[k]).time_since_update = Returned(issued[k]).age - 1
            /\ Present(issued[k]) <=> missed[k] <= max_age

\* A track created from a degenerate box is live when a call brings a
\* detection of the same box and one of a box inside which it lies.
C10_Witness ==
    \E k \in 1..Len(issued) :
        /\ Degenerate(origin[k].bbox)
        /\ issued[k] \in Ids(last.aged)
        /\ \E d, e \in 1..Len(last.match) :
             /\ Det(d).bbox = origin[k].bbox
             /\ Det(e).bbox # origin[k].bbox
             /\ ~Degenerate(Det(e).bbox)

InRange(score) == 0 <= score /\ score <= 10
Unclaimed(d) == (1..Len(last.aged)) \ ClaimedBefore(d)
\* The detection has an unclaimed track it can be paired with.
Pairable(d) ==
    \E t \in Unclaimed(d) :
        /\ ~FracIsZero(iou(last.aged[t].bbox, Det(d).bbox))
        /\ FracGe(iou(last.aged[t].bbox, Det(d).bbox), min_iou)

\* C11 as stated: a detection whose score is outside [0, 1] is processed
\* after every detection with a positive score inside [0, 1].
C11_Original ==
    \A d, e \in 1..Len(last.dets_sorted) :
        ( /\ ~InRange(Det(e).score)
          /\ InRange(Det(d).score) /\ Det(d).score > 0 )
        => d < e

\* C11 as amended: detections are ranked by their raw score, in range or
\* not (a score above 1 goes first), and a detection with a score outside
\* [0, 1] is paired like any other.
C11_RankedByRawScore ==
    /\ \A d, e \in 1..Len(last.dets_sorted) :
         d < e => Det(d).score >= Det(e).score
    /\ \A d \in 1..Len(last.dets_sorted) :
         (~InRange(Det(d).score) /\ Pairable(d)) => last.match[d] # 0

\* A detection with a score above 1 is given after one with a score in
\* range, is processed before it, and is paired with a track.
C11_Witness ==
    /\ Len(last.detections) >= 2
    /\ InRange(last.detections[1].score)
    /\ ~InRange(last.detections[2].score)
    /\ Det(1) = last.detections[2]
    /\ last.match[1] # 0

\* C12: a committed pair gives the track the detection's label and score
\* unblended and time_since_update 0, and leaves its id and age as they
\* were after the ageing at the start of the call.
C12_CommitFields ==
    \A d \in Pairs :
        LET was == last.before[last.match[d]]
        IN  /\ Present(was.id)
            /\ Returned(was.id).label = Det(d).label
            /\ Returned(was.id).score = Det(d).score
            /\ Returned(was.id).time_since_update = 0
            /\ Returned(was.id).age = was.age + 1
            /\ Cardinality({ i \in 1..Len(ret) : ret[i].id = was.id }) = 1

\* A track is paired with a detection of another label and another score.
C12_Witness ==
    \E d \in Pairs :
        /\ Old(d).label # Det(d).label
        /\ Old(d).score # Det(d).score
        /\ Old(d).time_since_update >= 2

\* C13: an id that is absent from the result of a call is absent from the
\* result of every later call.
C13_NoResurrection ==
    [][ \A k \in 1..Len(issued) :
          ~Present(issued[k]) => issued[k] \notin Ids(ret') ]_vars

\* A track was pruned in an earlier call, and the last call brought the
\* detection it was created from: that detection got a new id.
C13_Witness ==
    \E k \in 1..Len(issued) :
        /\ issued[k] \notin Ids(last.before)
        /\ ~Present(issued[k])
        /\ \E d \in 1..Len(last.match) :
             /\ Det(d) = origin[k]
             /\ ~Degenerate(Det(d).bbox)
             /\ last.match[d] = 0

\* C14: iou(a, b) is the reference overlap: 0 when the intersection has
\* width or height <= 0 or the union area is <= 0, otherwise intersection
\* area over union area; it lies in [0, 1], is the same for (b, a), and is 1
\* for a = b of positive width and height.
C14_IouIsReference ==
    iou_ret # <<>> =>
        LET a == iou_args[1]
            b == iou_args[2]
            got == iou_ret[1]
            w == Min(a[3], b[3]) - Max(a[1], b[1])
            h == Min(a[4], b[4]) - Max(a[2], b[2])
            area(c) == (c[3] - c[1]) * (c[4] - c[2])
            u == area(a) + area(b) - w * h
            zero == w <= 0 \/ h <= 0 \/ u <= 0
            swapped == iou(b, a)
        IN  /\ got[2] > 0
            /\ zero => got[1] = 0
            /\ ~zero => got[1] * u = (w * h) * got[2]
            /\ 0 <= got[1] /\ got[1] <= got[2]
            /\ got[1] * swapped[2] = swapped[1] * got[2]
            /\ (a = b /\ a[3] > a[1] /\ a[4] > a[2]) => got[1] = got[2]

\* iou() returned for two different boxes that overlap in part.
C14_Witness ==
    /\ iou_ret # <<>>
    /\ iou_args[1] # iou_args[2]
    /\ 0 < iou_ret[1][1]
    /\ iou_ret[1][1] < iou_ret[1][2]

C16_PartialBijection ==
    /\ Len(last.match) = Len(last.detections)
    /\ \A d \in Pairs : last.match[d] \in 1..Len(last.before)
    /\ \A d, e \in Pairs : d # e => last.match[d] # last.match[e]
    /\ Len(last.created) + Cardinality(Pairs) = Len(last.detections)
    /\ \A t \in 1..Len(last.before) :
         LET by == { d \in Pairs : last.match[d] = t }
             was == last.before[t]
         IN  /\ Cardinality(by) <= 1
             /\ by # {} => Present(was.id)
             /\ Present(was.id) =>
                  Returned(was.id).time_since_update =
                      IF by = {} THEN was.time_since_update + 1 ELSE 0

\* Two detections of a call both reach min_iou with the same track and with
\* no other: one is paired with it, the other is not paired.
C16_Witness ==
    \E d \in Pairs : \E e \in Unmatched(last.match) :
        /\ Candidates(d) = { last.match[d] }
        /\ Candidates(e) = { last.match[d] }
        /\ ~FracIsZero(iou(Old(d).bbox, Det(e).bbox))

\* The overlap of a detection of the last call with a track live in it.
Overlap(t, d) == iou(last.aged[t].bbox, Det(d).bbox)
\* The unclaimed tracks of the largest overlap with the detection.
Largest(d) ==
    { t \in Unclaimed(d) :
        \A u \in Unclaimed(d) : FracGe(Overlap(t, d), Overlap(u, d)) }

\* C17 as stated: a detection is compared with the tracks not yet claimed in
\* the call; if their largest overlap is >= min_iou it is paired with a
\* track of that overlap, otherwise it is left unpaired.
C17_Original ==
    \A d \in 1..Len(last.match) :
        IF \E t \in Largest(d) : FracGe(Overlap(t, d), min_iou)
        THEN last.match[d] \in Largest(d)
        ELSE last.match[d] = 0

\* C17 as amended: if the largest overlap is greater than 0 and >= min_iou
\* the detection is paired with the first track, in list order, of that
\* overlap; otherwise it is left unpaired.
C17_LargestOverlapRule ==
    \A d \in 1..Len(last.match) :
        IF \E t \in Largest(d) :
              ~FracIsZero(Overlap(t, d)) /\ FracGe(Overlap(t, d), min_iou)
        THEN /\ last.match[d] \in Largest(d)
             /\ \A t \in Largest(d) : last.match[d] <= t
        ELSE last.match[d] = 0

\* A detection has two unclaimed tracks of different positive overlaps, the
\* later one in the list the larger, and is paired with the later one.
C17_Witness ==
    \E d \in Pairs : \E t \in Unclaimed(d) :
        /\ t < last.match[d]
        /\ ~FracIsZero(Overlap(t, d))
        /\ FracGe(Overlap(t, d), min_iou)
        /\ FracGt(Overlap(last.match[d], d), Overlap(t, d))

ScoredAs(d, e) == d.score = e.score

\* C18: the detections of a call are processed in descending score order,
\* those of equal score in the order they were given; and the returned list
\* and the tracker's fields after a call are determined by the fields before
\* it and the detections given, hence by the lists given so far.
C18_StableDescending ==
    /\ Len(last.dets_sorted) = Len(last.detections)
    /\ \A d, e \in 1..Len(last.dets_sorted) :
         d < e => Det(d).score >= Det(e).score
    /\ \A x \in { last.detections[i] : i \in 1..Len(last.detections) } :
         SelectSeq(last.dets_sorted, LAMBDA e : ScoredAs(e, x))
            = SelectSeq(last.detections, LAMBDA e : ScoredAs(e, x))
    /\ LET r == update(last.before, last.next_id, last.detections,
                       max_age, min_iou, smoothing)
       IN  calls > 0 => ret = r.tracks /\ tracks = r.tracks /\ next_id = r.next_id

\* A call is given two different detections of one score before one of a
\* higher score.
C18_Witness ==
    /\ Len(last.detections) = 3
    /\ last.detections[1] # last.detections[2]
    /\ last.detections[1].score = last.detections[2].score
    /\ last.detections[3].score > last.detections[1].score
    /\ Det(1) = last.detections[3]

\* The track is the first, in list order, of the largest overlap with the
\* detection among all live tracks, and that overlap can be accepted.
FirstLargest(t, d) ==
    /\ \A u \in 1..Len(last.aged) :
         /\ FracGe(Overlap(t, d), Overlap(u, d))
         /\ u < t => FracGt(Overlap(t, d), Overlap(u, d))
    /\ ~FracIsZero(Overlap(t, d))
    /\ FracGe(Overlap(t, d), min_iou)

\* C19 as stated: when two detections of a call both have the same live
\* track as their largest-overlap track, with overlap >= min_iou, the track
\* is paired with the one processed first, and the other is paired with
\* another track or creates a track.
C19_Original ==
    \A d, e \in 1..Len(last.match) : \A t \in 1..Len(last.aged) :
        ( /\ d < e
          /\ \A u \in 1..Len(last.aged) :
               /\ FracGe(Overlap(t, d), Overlap(u, d))
               /\ FracGe(Overlap(t, e), Overlap(u, e))
          /\ FracGe(Overlap(t, d), min_iou)
          /\ FracGe(Overlap(t, e), min_iou) )
        => /\ last.match[d] = t
           /\ last.match[e] # t
           /\ last.match[e] = 0 => CreatedFor(e)

\* C19 as amended: when both have the same track as the first track of
\* their largest overlap, that overlap is positive and >= min_iou, and no
\* detection processed before them has claimed the track, the track is
\* paired with the one processed first, which has the higher score or the
\* same; the other is paired with a different track, unclaimed at its turn
\* and of positive overlap >= min_iou, or creates a track.
C19_FirstProcessedWins ==
    \A d, e \in 1..Len(last.match) : \A t \in 1..Len(last.aged) :
        ( /\ d < e
          /\ FirstLargest(t, d)
          /\ FirstLargest(t, e)
          /\ t \notin ClaimedBefore(d) )
        => /\ last.match[d] = t
           /\ Det(d).score >= Det(e).score
           /\ last.match[e] # t
           /\ last.match[e] # 0 =>
                /\ last.match[e] \in Unclaimed(e)
                /\ ~FracIsZero(Overlap(last.match[e], e))
                /\ FracGe(Overlap(last.match[e], e), min_iou)
           /\ last.match[e] = 0 => CreatedFor(e)

\* Two detections of one score have the same track as their largest
\* overlap: the one given first is paired with it and the other creates a
\* track, which is in the result.
C19_Witness ==
    \E t \in 1..Len(last.aged) :
        /\ Len(last.detections) = 2
        /\ last.detections[1].score = last.detections[2].score
        /\ last.detections[1] # last.detections[2]
        /\ Det(1) = last.detections[1]
        /\ FirstLargest(t, 1)
        /\ FirstLargest(t, 2)
        /\ last.match[1] = t
        /\ last.match[2] = 0
        /\ CreatedFor(2)

\* C20: a call adds exactly 1 to the age of every track live at its start,
\* paired in the call or not, so the age of a live track is 1 plus the
\* number of calls made since the one that created it, and
\* 0 <= time_since_update < age.
C20_AgeCountsCalls ==
    /\ Len(last.aged) = Len(last.before)
    /\ \A t \in 1..Len(last.before) :
         /\ last.aged[t].age = last.before[t].age + 1
         /\ Present(last.before[t].id) =>
              Returned(last.before[t].id).age = last.before[t].age + 1
    /\ \A k \in 1..Len(issued) :
         Present(issued[k]) =>
            /\ Returned(issued[k]).age = 1 + (calls - born[k])
            /\ 0 <= Returned(issued[k]).time_since_update
            /\ Returned(issued[k]).time_since_update < Returned(issued[k]).age

\* A track went unpaired through a call and was paired in the last one; it
\* is in its third call or later.
C20_Witness ==
    \E d \in Pairs :
        /\ Old(d).time_since_update >= 2
        /\ Present(Old(d).id)
        /\ Returned(Old(d).id).age >= 3
        /\ Returned(Old(d).id).time_since_update = 0

\* The tracks live before the last call that no detection was paired with.
Unpaired == { t \in 1..Len(last.before) : \A d \in Pairs : last.match[d] # t }

\* C21: a track that is not paired in a call keeps its id, bbox, label and
\* score and has age and time_since_update increased by 1, if it is still
\* in the result, and is left out only when its time_since_update passed
\* max_age; a call without detections creates no track, leaves the id
\* counter alone, and pairs nothing.
C21_UnpairedUntouched ==
    /\ \A t \in Unpaired :
         LET was == last.before[t]
         IN  IF Present(was.id)
             THEN Returned(was.id) =
                     [ id |-> was.id, bbox |-> was.bbox, label |-> was.label,
                       score |-> was.score, age |-> was.age + 1,
                       time_since_update |-> was.time_since_update + 1 ]
             ELSE was.time_since_update + 1 > max_age
    /\ (calls > 0 /\ last.detections = <<>>) =>
         /\ last.created = <<>>
         /\ next_id = last.next_id
         /\ Unpaired = 1..Len(last.before)
         /\ Ids(ret) \subseteq Ids(last.before)
         /\ Len(ret) <= Len(last.before)

\* A call pairs one live track and leaves another unpaired, which stays in
\* the result.
C21_Witness ==
    /\ Pairs # {}
    /\ \E t \in Unpaired :
         /\ Present(last.before[t].id)
         /\ last.before[t].time_since_update >= 1

\* C22: after max_age + 1 calls without detections in a row no track is
\* live, and none is while such calls go on; the id counter stays above
\* every id issued, so the tracks created afterwards get larger ids than
\* all issued before.
C22_QuietEmpties ==
    /\ max_age >= 0
    /\ quiet >= max_age + 1 =>
         /\ tracks = <<>>
         /\ ret = <<>>
    /\ quiet >= 1 => next_id = last.next_id
    /\ \A k \in 1..Len(issued) : issued[k] < next_id
    /\ \A i \in 1..Len(last.created) :
         /\ last.created[i].id >= last.next_id
         /\ \A k \in 1..(Len(issued) - Len(last.created)) :
              issued[k] < last.created[i].id

\* The last of max_age + 1 >= 2 calls without detections removed the
\* tracks that were still live, and ids had been issued.
C22_Witness ==
    /\ max_age >= 1
    /\ quiet = max_age + 1
    /\ last.before # <<>>
    /\ tracks = <<>>
    /\ next_id > 1

====
